---- MODULE Spec2Model ----
(***************************************************************************)
(* The investigation hook (useInvestigationWithoutContext) with its view   *)
(* projector and its persistence sync, and the sample-logs form            *)
(* (SampleLogsInput) with its parser (parseLogsContent), of                *)
(* x-pack/plugins/observability_solution/investigate/public/hooks/         *)
(* use_investigation/index.tsx.                                            *)
(*                                                                         *)
(* The investigation store (investigation_store), createNewInvestigation   *)
(* and useLocalStorage are imported by the hook and are not part of the    *)
(* sources at hand; their definitions below follow the written             *)
(* specification of the Document Store and of the local persistence.      *)
(***************************************************************************)
EXTENDS Integers, Sequences, FiniteSets, TLC

VARIABLES
    investigation,          \* the store's current snapshot
    nextId,                 \* number of ids v4() has handed out to widgets
    pending,                \* addItem calls suspended in the store
    widgetComponentsById,   \* the projector's cache (widgetComponentsById.current)
    constructed,            \* number of components the projector has built
    unrendered,             \* snapshots published since the last render
    writeFailures,          \* writes local storage has refused
    investigations,         \* the stored list 'experimentalInvestigations'
    investigationsRef,      \* investigationsRef.current
    subscribed,             \* the persistence subscription is active
    last,                   \* what the most recent handler did
    fileContent,            \* the text handed to parseLogsContent
    parseResult,            \* what parseLogsContent returned for it
    selected,               \* the file in the picker of the sample-logs form
    reads,                  \* FileReader reads that have not ended
    isParsing,              \* state of the form
    sampleFileError,        \* state of the form
    integrationSettings,    \* the integration settings of the state
    toasts                  \* toasts the most recent handler of the form added

vars == <<investigation, nextId, pending, widgetComponentsById, constructed, unrendered,
          writeFailures, investigations, investigationsRef, subscribed, last,
          fileContent, parseResult, selected, reads, isParsing,
          sampleFileError, integrationSettings, toasts>>

hookVars == <<investigation, nextId, pending, widgetComponentsById, constructed, unrendered,
              writeFailures, investigations, investigationsRef, subscribed, last>>

formVars == <<fileContent, parseResult, selected, reads, isParsing,
              sampleFileError, integrationSettings, toasts>>

----------------------------------------------------------------------------
(* Bounds of the model *)

MaxIds == 2            \* ids v4() hands out to widgets
MaxPending == 1        \* addItem calls suspended at the same time
MaxUnrendered == 2     \* snapshots published between two renders
MaxWriteFailures == 1  \* writes local storage refuses
MaxTextLen == 3        \* characters of the short file contents
MaxExtraRows == 2      \* rows of the long file contents beyond MaxLogsSampleRows
MaxReads == 2          \* file reads in flight at the same time

Titles == {"New investigation", "Renamed"}
TimeRanges == {"now-15m"}
WidgetTypes == {"chart"}
WidgetParameters == {0, 1}

----------------------------------------------------------------------------
(* Sequences *)

Reverse(s) == [i \in 1..Len(s) |-> s[Len(s) + 1 - i]]

Map(s, F(_)) == [i \in 1..Len(s) |-> F(s[i])]

ItemIds(items) == {items[i].id : i \in 1..Len(items)}

IndexOf(items, id) == CHOOSE i \in 1..Len(items) : items[i].id = id

InsertAt(s, i, e) == SubSeq(s, 1, i) \o <<e>> \o SubSeq(s, i + 1, Len(s))

----------------------------------------------------------------------------
(* The Document Store: investigation_store and createNewInvestigation.     *)
(* Each command yields the next snapshot; the hook publishes it.           *)

CreateNewInvestigation(id, timeRange) ==
    [id |-> id, title |-> "New investigation", globalParameters |-> timeRange,
     items |-> <<>>, notes |-> <<>>]

StoreAddItem_updatesOnly(inv, id, create, loading) ==
    [inv EXCEPT !.items =
        [i \in 1..Len(inv.items) |->
            IF inv.items[i].id = id
            THEN [inv.items[i] EXCEPT !.parameters = create.parameters]
            ELSE inv.items[i]]]

\* addItem(id, create): update the item of that id in place when there is one,
\* append a new widget at the end when there is none.
StoreAddItem(inv, id, create, loading) ==
    IF id \in ItemIds(inv.items)
    THEN [inv EXCEPT !.items =
            [i \in 1..Len(inv.items) |->
                IF inv.items[i].id = id
                THEN [inv.items[i] EXCEPT !.parameters = create.parameters]
                ELSE inv.items[i]]]
    ELSE [inv EXCEPT !.items =
            Append(inv.items, [id |-> id, type |-> create.type,
                               parameters |-> create.parameters,
                               loading |-> loading])]

\* deleteItem(id): remove the item of that id if present.
StoreDeleteItem(inv, id) ==
    [inv EXCEPT !.items = SelectSeq(inv.items, LAMBDA item : item.id # id)]

\* copyItem(id): the copy, under a fresh id, directly after the original.
StoreCopyItem(inv, id, newId) ==
    LET i == IndexOf(inv.items, id)
    IN  [inv EXCEPT !.items =
            InsertAt(inv.items, i, [inv.items[i] EXCEPT !.id = newId])]

StoreSetTitle(inv, title) == [inv EXCEPT !.title = title]

StoreSetGlobalParameters(inv, parameters) ==
    [inv EXCEPT !.globalParameters = parameters]

----------------------------------------------------------------------------
(* The hook: ids *)

\* v4(): the id handed out after n earlier ones; never one handed out before.
V4_reused(n) == "w1"

V4(n) == "w" \o ToString(n + 1)

GeneratedIds == {V4(n) : n \in 0..(nextId - 1)}

\* The id of the live investigation (v4() at construction of the store).
CurrentId == "inv"

----------------------------------------------------------------------------
(* The View Projector: itemsWithContext over widgetComponentsById *)

\* Object.keys(widgetComponentsById): the own keys of the ref object, which
\* has the single property `current`; the cached ids are the keys of
\* widgetComponentsById.current.
ObjectKeysOfRef(cache) == {"current"}

\* The component built for an item that has none: it closes over the item's
\* id (api.onWidgetAdd, onDelete) and over the definition of the item's type.
\* It is a new function object: `n`, the number of components built before
\* it, tells it from every other.
NewComponent(item, n) == [id |-> item.id, type |-> item.type, binding |-> n]

\* The ids among `items` for which the projector builds a component.
WithoutComponent(cache, items) == ItemIds(items) \ DOMAIN cache

\* The cache after the projector has run over `items`: a component is built
\* for each item that has none, every item's id is pulled from
\* unusedComponentIds, and what is left there is deleted from the cache.
\* `n` components were built before this run; the items are taken in order.
ItemsWithContext_rebuilds(cache, items, n) ==
    LET present == ItemIds(items)
        unusedComponentIds == ObjectKeysOfRef(cache) \ present
        built == [id \in (DOMAIN cache) \cup present |->
                    IF id \in present
                    THEN NewComponent(items[IndexOf(items, id)],
                                      n + IndexOf(items, id) - 1)
                    ELSE cache[id]]
    IN  [id \in (DOMAIN built) \ unusedComponentIds |-> built[id]]

ItemsWithContext(cache, items, n) ==
    LET present == ItemIds(items)
        unusedComponentIds == ObjectKeysOfRef(cache) \ present
        builtBefore(i) ==
            Cardinality(WithoutComponent(cache, SubSeq(items, 1, i - 1)))
        built == [id \in (DOMAIN cache) \cup present |->
                    IF id \in DOMAIN cache
                    THEN cache[id]
                    ELSE NewComponent(items[IndexOf(items, id)],
                                      n + builtBefore(IndexOf(items, id)))]
    IN  [id \in (DOMAIN built) \ unusedComponentIds |-> built[id]]

----------------------------------------------------------------------------
(* Persistence Sync: the subscriber of investigation$ *)

SaveErrorTitle == "Could not save investigations to local storage"
AddErrorTitle == "Failed to add widget"

IsEmpty_never(inv) == FALSE

IsEmpty(inv) == Len(inv.items) = 0

ToSerializeItem_keepsLoading(item) == item

\* const { loading, ...rest } = item; return rest;
ToSerializeItem(item) == [f \in (DOMAIN item) \ {"loading"} |-> item[f]]

ToSerialize(inv) == [inv EXCEPT !.items = Map(inv.items, ToSerializeItem)]

HasStoredCurrentInvestigation(ref, inv) ==
    \E i \in 1..Len(ref) : ref[i].id = inv.id

InsertedInvestigations_onlyCurrent(ref, toSerialize) == <<toSerialize>>

\* [...investigationsRef.current, toSerialize].reverse()
InsertedInvestigations(ref, toSerialize) == Reverse(Append(ref, toSerialize))

UpdatedInvestigations_appends(ref, inv, toSerialize) ==
    Reverse(Append(ref, toSerialize))

\* investigationsRef.current.map(replace the entry of this id).reverse()
UpdatedInvestigations(ref, inv, toSerialize) ==
    Reverse([i \in 1..Len(ref) |->
                IF ref[i].id = inv.id THEN toSerialize ELSE ref[i]])

AttemptToStoreInvestigations_uncaught(stored, next, writes) ==
    IF writes
    THEN [investigations |-> next, dialogs |-> <<>>, thrown |-> FALSE,
          sync |-> "written"]
    ELSE [investigations |-> stored, dialogs |-> <<>>, thrown |-> TRUE,
          sync |-> "failed"]

\* try { setInvestigations(next) } catch { showErrorDialog }: `writes` is
\* whether the local storage takes the write.
AttemptToStoreInvestigations(stored, next, writes) ==
    IF writes
    THEN [investigations |-> next, dialogs |-> <<>>, thrown |-> FALSE,
          sync |-> "written"]
    ELSE [investigations |-> stored, dialogs |-> <<SaveErrorTitle>>,
          thrown |-> FALSE, sync |-> "failed"]

\* The callback given to investigation$.subscribe.
SubscribeCallback(inv, ref, stored, writes) ==
    IF IsEmpty(inv)
    THEN [investigations |-> stored, dialogs |-> <<>>, thrown |-> FALSE,
          sync |-> "skipped"]
    ELSE LET toSerialize == ToSerialize(inv)
         IN  IF ~HasStoredCurrentInvestigation(ref, inv)
             THEN AttemptToStoreInvestigations(
                      stored, InsertedInvestigations(ref, toSerialize), writes)
             ELSE AttemptToStoreInvestigations(
                      stored, UpdatedInvestigations(ref, inv, toSerialize), writes)

\* What a snapshot does on its way out of the store: the callback runs when
\* the subscription is active.
Deliver(inv, writes) ==
    IF subscribed
    THEN SubscribeCallback(inv, investigationsRef, investigations, writes)
    ELSE [investigations |-> investigations, dialogs |-> <<>>,
          thrown |-> FALSE, sync |-> "none"]

----------------------------------------------------------------------------
(* parseLogsContent.  A file content is a sequence of characters; an object *)
(* literal written on one line, {"a":k}, counts as one character.           *)

MaxLogsSampleRows == 10

ObjectLiteral(k) == "{a:" \o ToString(k) \o "}"

MaxRows == MaxLogsSampleRows + MaxExtraRows

ObjectLiterals == {ObjectLiteral(k) : k \in 1..MaxRows}

Whitespace == {" ", "\n"}

CAN_NOT_READ == "CAN_NOT_READ"
CAN_NOT_PARSE == "CAN_NOT_PARSE"
NOT_ARRAY == "NOT_ARRAY"
EMPTY == "EMPTY"
NOT_OBJECT == "NOT_OBJECT"

\* JSON values
ObjectValue(text) == [t |-> "object", text |-> text, elems |-> <<>>]
NumberValue(text) == [t |-> "number", text |-> text, elems |-> <<>>]
ArrayValue(elems) == [t |-> "array", text |-> "", elems |-> elems]

SyntaxError == [ok |-> FALSE, val |-> NumberValue("0"), next |-> 0]

RECURSIVE SkipWhitespace(_, _)
SkipWhitespace(text, i) ==
    IF i <= Len(text) /\ text[i] \in Whitespace
    THEN SkipWhitespace(text, i + 1)
    ELSE i

\* The JSON value that starts at text[i], and where it ends.
RECURSIVE JSONValueAt(_, _)
RECURSIVE JSONElementsAt(_, _, _)

JSONValueAt(text, i) ==
    LET j == SkipWhitespace(text, i)
    IN  IF j > Len(text) THEN SyntaxError
        ELSE IF text[j] \in ObjectLiterals
        THEN [ok |-> TRUE, val |-> ObjectValue(text[j]), next |-> j + 1]
        ELSE IF text[j] = "1"
        THEN [ok |-> TRUE, val |-> NumberValue("1"), next |-> j + 1]
        ELSE IF text[j] = "{"
        THEN LET k == SkipWhitespace(text, j + 1)
             IN  IF k <= Len(text) /\ text[k] = "}"
                 THEN [ok |-> TRUE, val |-> ObjectValue("{}"), next |-> k + 1]
                 ELSE SyntaxError
        ELSE IF text[j] = "["
        THEN LET k == SkipWhitespace(text, j + 1)
             IN  IF k <= Len(text) /\ text[k] = "]"
                 THEN [ok |-> TRUE, val |-> ArrayValue(<<>>), next |-> k + 1]
                 ELSE JSONElementsAt(text, k, <<>>)
        ELSE SyntaxError

\* The elements of an array from text[i] on, after those in `elems`.
JSONElementsAt(text, i, elems) ==
    LET v == JSONValueAt(text, i)
    IN  IF ~v.ok THEN SyntaxError
        ELSE LET k == SkipWhitespace(text, v.next)
             IN  IF k > Len(text) THEN SyntaxError
                 ELSE IF text[k] = ","
                 THEN JSONElementsAt(text, k + 1, Append(elems, v.val))
                 ELSE IF text[k] = "]"
                 THEN [ok |-> TRUE, val |-> ArrayValue(Append(elems, v.val)),
                       next |-> k + 1]
                 ELSE SyntaxError

\* JSON.parse(text): one value, whitespace around it and nothing else.
JSONParse(text) ==
    LET v == JSONValueAt(text, 1)
    IN  IF v.ok /\ SkipWhitespace(text, v.next) > Len(text)
        THEN [ok |-> TRUE, val |-> v.val]
        ELSE [ok |-> FALSE, val |-> v.val]

\* JSON.stringify(value), as characters
RECURSIVE JSONStringify(_)
RECURSIVE JoinElements(_, _)
JoinElements(elems, i) ==
    IF i > Len(elems) THEN <<>>
    ELSE (IF i > 1 THEN <<",">> ELSE <<>>)
            \o JSONStringify(elems[i]) \o JoinElements(elems, i + 1)

JSONStringify(value) ==
    IF value.t = "array"
    THEN <<"[">> \o JoinElements(value.elems, 1) \o <<"]">>
    ELSE <<value.text>>

\* fileContent.split('\n')
RECURSIVE SplitLines(_, _, _)
SplitLines(text, i, line) ==
    IF i > Len(text) THEN <<line>>
    ELSE IF text[i] = "\n"
    THEN <<line>> \o SplitLines(text, i + 1, <<>>)
    ELSE SplitLines(text, i + 1, Append(line, text[i]))

\* line.trim() !== ''
IsNotBlank(line) == \E i \in 1..Len(line) : line[i] \notin Whitespace

NonBlankLines(text) == SelectSeq(SplitLines(text, 1, <<>>), IsNotBlank)

\* isPlainObject(log)
IsPlainObject(value) == value.t = "object"

ParsedContent_unwrapsTwice(text) ==
    LET lines == Map(NonBlankLines(text), JSONParse)
    IN  IF \A i \in 1..Len(lines) : lines[i].ok
        THEN LET values == [i \in 1..Len(lines) |-> lines[i].val]
             IN  IF Len(values) = 1 /\ values[1].t = "array"
                 THEN IF Len(values[1].elems) = 1
                         /\ values[1].elems[1].t = "array"
                      THEN [ok |-> TRUE, val |-> values[1].elems[1]]
                      ELSE [ok |-> TRUE, val |-> values[1]]
                 ELSE [ok |-> TRUE, val |-> ArrayValue(values)]
        ELSE JSONParse(text)

\* The try/catch of parseLogsContent: every non-blank line parsed on its own,
\* a single line that is an array unwrapped; when a line does not parse, the
\* whole content parsed as one JSON text.
ParsedContent(text) ==
    LET lines == Map(NonBlankLines(text), JSONParse)
    IN  IF \A i \in 1..Len(lines) : lines[i].ok
        THEN LET values == [i \in 1..Len(lines) |-> lines[i].val]
             IN  IF Len(values) = 1 /\ values[1].t = "array"
                 THEN [ok |-> TRUE, val |-> values[1]]
                 ELSE [ok |-> TRUE, val |-> ArrayValue(values)]
        ELSE JSONParse(text)

ParseLogsContent_validatesBeforeTruncating(content) ==
    IF content.isNull THEN [error |-> CAN_NOT_READ]
    ELSE LET parsed == ParsedContent(content.text)
         IN  IF ~parsed.ok THEN [error |-> CAN_NOT_PARSE]
             ELSE IF parsed.val.t # "array" THEN [error |-> NOT_ARRAY]
             ELSE IF Len(parsed.val.elems) = 0 THEN [error |-> EMPTY]
             ELSE IF \E i \in 1..Len(parsed.val.elems) :
                        ~IsPlainObject(parsed.val.elems[i])
             THEN [error |-> NOT_OBJECT]
             ELSE LET isTruncated == Len(parsed.val.elems) > MaxLogsSampleRows
                      rows == IF isTruncated
                              THEN SubSeq(parsed.val.elems, 1, MaxLogsSampleRows)
                              ELSE parsed.val.elems
                  IN  [isTruncated |-> isTruncated,
                       logsSampleParsed |-> Map(rows, JSONStringify)]

ParseLogsContent_withoutEmptyCheck(content) ==
    IF content.isNull THEN [error |-> CAN_NOT_READ]
    ELSE LET parsed == ParsedContent(content.text)
         IN  IF ~parsed.ok THEN [error |-> CAN_NOT_PARSE]
             ELSE IF parsed.val.t # "array" THEN [error |-> NOT_ARRAY]
             ELSE LET isTruncated == Len(parsed.val.elems) > MaxLogsSampleRows
                      rows == IF isTruncated
                              THEN SubSeq(parsed.val.elems, 1, MaxLogsSampleRows)
                              ELSE parsed.val.elems
                  IN  IF \E i \in 1..Len(rows) : ~IsPlainObject(rows[i])
                      THEN [error |-> NOT_OBJECT]
                      ELSE [isTruncated |-> isTruncated,
                            logsSampleParsed |-> Map(rows, JSONStringify)]

ParseLogsContent_truncatesAtCap(content) ==
    IF content.isNull THEN [error |-> CAN_NOT_READ]
    ELSE LET parsed == ParsedContent(content.text)
         IN  IF ~parsed.ok THEN [error |-> CAN_NOT_PARSE]
             ELSE IF parsed.val.t # "array" THEN [error |-> NOT_ARRAY]
             ELSE IF Len(parsed.val.elems) = 0 THEN [error |-> EMPTY]
             ELSE LET isTruncated == Len(parsed.val.elems) >= MaxLogsSampleRows
                      rows == IF isTruncated
                              THEN SubSeq(parsed.val.elems, 1, MaxLogsSampleRows)
                              ELSE parsed.val.elems
                  IN  IF \E i \in 1..Len(rows) : ~IsPlainObject(rows[i])
                      THEN [error |-> NOT_OBJECT]
                      ELSE [isTruncated |-> isTruncated,
                            logsSampleParsed |-> Map(rows, JSONStringify)]

\* parseLogsContent(fileContent)
ParseLogsContent(content) ==
    IF content.isNull THEN [error |-> CAN_NOT_READ]
    ELSE LET parsed == ParsedContent(content.text)
         IN  IF ~parsed.ok THEN [error |-> CAN_NOT_PARSE]
             ELSE IF parsed.val.t # "array" THEN [error |-> NOT_ARRAY]
             ELSE IF Len(parsed.val.elems) = 0 THEN [error |-> EMPTY]
             ELSE LET isTruncated == Len(parsed.val.elems) > MaxLogsSampleRows
                      rows == IF isTruncated
                              THEN SubSeq(parsed.val.elems, 1, MaxLogsSampleRows)
                              ELSE parsed.val.elems
                  IN  IF \E i \in 1..Len(rows) : ~IsPlainObject(rows[i])
                      THEN [error |-> NOT_OBJECT]
                      ELSE [isTruncated |-> isTruncated,
                            logsSampleParsed |-> Map(rows, JSONStringify)]

----------------------------------------------------------------------------
(* SampleLogsInput: the sample-logs form *)

\* A value of the form that may be undefined
Undefined == [undefined |-> TRUE]
Defined(value) == [value |-> value]

LOGS_SAMPLE_TRUNCATED == "LOGS_SAMPLE_TRUNCATED"

\* reader.onload once parseLogsContent has returned `result`, in the
\* callback that closed over `settings`: what it leaves in the state of the
\* form, in the integration settings and in the toasts.
Onload(result, settings) ==
    IF "error" \in DOMAIN result
    THEN [result |-> result,
              isParsing |-> FALSE,
              sampleFileError |-> Defined(result.error),
              integrationSettings |->
                  [settings EXCEPT !.logsSampleParsed = Undefined],
              toasts |-> <<>>]
        ELSE [result |-> result,
              isParsing |-> FALSE,
              sampleFileError |-> Undefined,
              integrationSettings |->
                  [settings EXCEPT !.logsSampleParsed =
                                        Defined(result.logsSampleParsed)],
              toasts |-> IF result.isTruncated
                         THEN <<LOGS_SAMPLE_TRUNCATED>> ELSE <<>>]

----------------------------------------------------------------------------
(* State after construction *)

OtherInvestigation(id) ==
    [id |-> id, title |-> "Earlier", globalParameters |-> "now-24h",
     items |-> <<[id |-> "x", type |-> "chart", parameters |-> 0]>>,
     notes |-> <<>>]

\* What local storage may hold when the hook mounts: investigations of
\* earlier sessions, their ids unique, none of them the new investigation.
StoredAtStart ==
    {<<>>,
     <<OtherInvestigation("invA"), OtherInvestigation("invB")>>}

NoCall ==
    [via |-> "none", published |-> FALSE, storeFailed |-> FALSE,
     outcome |-> "resolved", sync |-> "none", dialogs |-> <<>>]

NoFile == [isNull |-> TRUE, text |-> <<>>]
NotParsed == [parsed |-> FALSE]

\* The integration settings the form is given: no sample yet.
InitialSettings == [name |-> "integration", logsSampleParsed |-> Undefined]

\* The form as mounted: useState(false), useState<string>(), an empty picker.
InitFormState ==
    /\ selected = NoFile
    /\ reads = {}
    /\ isParsing = FALSE
    /\ sampleFileError = Undefined
    /\ integrationSettings = InitialSettings
    /\ toasts = <<>>

InitHook ==
    /\ investigation \in {CreateNewInvestigation(CurrentId, t) : t \in TimeRanges}
    /\ nextId = 0
    /\ pending = {}
    /\ widgetComponentsById = [id \in {} |-> NewComponent([id |-> id, type |-> "chart"], 0)]
    /\ constructed = 0
    /\ unrendered = 0
    /\ writeFailures = 0
    /\ investigations \in StoredAtStart
    /\ investigationsRef = investigations
    /\ subscribed = FALSE
    /\ last = NoCall

Init ==
    /\ InitHook
    /\ fileContent = NoFile
    /\ parseResult = NotParsed
    /\ InitFormState

----------------------------------------------------------------------------
(* Handlers of the hook *)

\* The store publishes `inv`; the subscriber runs inside the publication.
\* `writes` is whether local storage takes the write, if one is attempted.
\* The two guards keep the model finite: at most MaxUnrendered publications
\* between two renders, at most MaxWriteFailures refused writes.
Publish(via, inv, writes) ==
    LET d == Deliver(inv, writes)
    IN  /\ unrendered < MaxUnrendered
        /\ writes \/ writeFailures < MaxWriteFailures
        /\ investigation' = inv
        /\ investigations' = d.investigations
        /\ unrendered' = unrendered + 1
        /\ writeFailures' = IF d.sync = "failed" THEN writeFailures + 1
                                                 ELSE writeFailures
        /\ subscribed' = (subscribed /\ ~d.thrown)
        /\ last' = [via |-> via, published |-> TRUE, storeFailed |-> FALSE,
                    outcome |-> IF d.thrown THEN "rejected" ELSE "resolved",
                    sync |-> d.sync, dialogs |-> d.dialogs]

\* addItem of the hook, up to the await: a fresh id, and the store's addItem
\* suspended on the default parameters of the widget type.
AddItem(type) ==
    /\ nextId < MaxIds
    /\ Cardinality(pending) < MaxPending
    /\ pending' = pending \cup {[id |-> V4(nextId), type |-> type, via |-> "addItem"]}
    /\ nextId' = nextId + 1
    /\ UNCHANGED <<investigation, widgetComponentsById, constructed, unrendered, writeFailures,
                   investigations, investigationsRef, subscribed, last>>
    /\ UNCHANGED formVars

\* api.onWidgetAdd of a component: the store's addItem under the item's id.
OnWidgetAdd(id, type) ==
    /\ id \in DOMAIN widgetComponentsById
    /\ Cardinality(pending) < MaxPending
    /\ pending' = pending \cup {[id |-> widgetComponentsById[id].id,
                                 type |-> type, via |-> "onWidgetAdd"]}
    /\ UNCHANGED <<investigation, nextId, widgetComponentsById, constructed, unrendered,
                   writeFailures, investigations, investigationsRef, subscribed,
                   last>>
    /\ UNCHANGED formVars

AddItemCatch_rethrows ==
    [via |-> "addItem", published |-> FALSE, storeFailed |-> TRUE,
     outcome |-> "rejected", sync |-> "none", dialogs |-> <<>>]

\* catch (error) { notifications.showErrorDialog(...) } of the hook's addItem
AddItemCatch ==
    [via |-> "addItem", published |-> FALSE, storeFailed |-> TRUE,
     outcome |-> "resolved", sync |-> "none", dialogs |-> <<AddErrorTitle>>]

\* onWidgetAdd returns the store's promise as it is.
OnWidgetAddRejected ==
    [via |-> "onWidgetAdd", published |-> FALSE, storeFailed |-> TRUE,
     outcome |-> "rejected", sync |-> "none", dialogs |-> <<>>]

\* The suspended addItem goes on: the default parameters resolve and the
\* widget is added, or they reject and the store leaves the snapshot alone.
AddItemSettles(call, resolves, parameters, loading, writes) ==
    /\ call \in pending
    /\ pending' = pending \ {call}
    /\ IF resolves
       THEN Publish(call.via,
                    StoreAddItem(investigation, call.id,
                        [type |-> call.type, parameters |-> parameters], loading),
                    writes)
       ELSE /\ last' = IF call.via = "addItem" THEN AddItemCatch
                                                ELSE OnWidgetAddRejected
            /\ UNCHANGED <<investigation, investigations, unrendered,
                           writeFailures, subscribed>>
    /\ UNCHANGED <<nextId, widgetComponentsById, constructed, investigationsRef>>
    /\ UNCHANGED formVars

\* deleteItem of the hook
DeleteItem(id, writes) ==
    /\ id \in GeneratedIds
    /\ Publish("command", StoreDeleteItem(investigation, id), writes)
    /\ UNCHANGED <<nextId, pending, widgetComponentsById, constructed, investigationsRef>>
    /\ UNCHANGED formVars

\* onDelete of a component
OnDelete(id, writes) ==
    /\ id \in DOMAIN widgetComponentsById
    /\ Publish("command",
               StoreDeleteItem(investigation, widgetComponentsById[id].id), writes)
    /\ UNCHANGED <<nextId, pending, widgetComponentsById, constructed, investigationsRef>>
    /\ UNCHANGED formVars

\* copyItem of the store, handed out by the hook
CopyItem(id, writes) ==
    /\ id \in ItemIds(investigation.items)
    /\ nextId < MaxIds
    /\ nextId' = nextId + 1
    /\ Publish("command", StoreCopyItem(investigation, id, V4(nextId)), writes)
    /\ UNCHANGED <<pending, widgetComponentsById, constructed, investigationsRef>>
    /\ UNCHANGED formVars

SetTitle(title, writes) ==
    /\ Publish("command", StoreSetTitle(investigation, title), writes)
    /\ UNCHANGED <<nextId, pending, widgetComponentsById, constructed, investigationsRef>>
    /\ UNCHANGED formVars

SetGlobalParameters(parameters, writes) ==
    /\ Publish("command", StoreSetGlobalParameters(investigation, parameters), writes)
    /\ UNCHANGED <<nextId, pending, widgetComponentsById, constructed, investigationsRef>>
    /\ UNCHANGED formVars

\* A render of the hook: the projector runs over the snapshot and
\* investigationsRef.current takes the stored list.
Render ==
    /\ widgetComponentsById' =
            ItemsWithContext(widgetComponentsById, investigation.items, constructed)
    /\ constructed' =
            constructed
                + Cardinality(WithoutComponent(widgetComponentsById,
                                               investigation.items))
    /\ investigationsRef' = investigations
    /\ unrendered' = 0
    /\ UNCHANGED <<investigation, nextId, pending, writeFailures, investigations,
                   subscribed, last>>
    /\ UNCHANGED formVars

\* The effect subscribes; the store hands the subscriber its current snapshot.
Subscribe(writes) ==
    /\ ~subscribed
    /\ writes \/ writeFailures < MaxWriteFailures
    /\ LET d == SubscribeCallback(investigation, investigationsRef,
                                  investigations, writes)
       IN  /\ investigations' = d.investigations
           /\ writeFailures' = IF d.sync = "failed" THEN writeFailures + 1
                                                    ELSE writeFailures
           /\ subscribed' = ~d.thrown
           /\ last' = [via |-> "subscribe", published |-> FALSE,
                       storeFailed |-> FALSE,
                       outcome |-> IF d.thrown THEN "rejected" ELSE "resolved",
                       sync |-> d.sync, dialogs |-> d.dialogs]
    /\ UNCHANGED <<investigation, nextId, pending, widgetComponentsById, constructed,
                   unrendered, investigationsRef>>
    /\ UNCHANGED formVars

Next ==
    \/ \E type \in WidgetTypes : AddItem(type)
    \/ \E id \in GeneratedIds, type \in WidgetTypes : OnWidgetAdd(id, type)
    \/ \E call \in pending, resolves \in BOOLEAN,
          parameters \in WidgetParameters, loading \in BOOLEAN,
          writes \in BOOLEAN :
          AddItemSettles(call, resolves, parameters, loading, writes)
    \/ \E id \in GeneratedIds, writes \in BOOLEAN : DeleteItem(id, writes)
    \/ \E id \in GeneratedIds, writes \in BOOLEAN : OnDelete(id, writes)
    \/ \E id \in GeneratedIds, writes \in BOOLEAN : CopyItem(id, writes)
    \/ \E title \in Titles, writes \in BOOLEAN : SetTitle(title, writes)
    \/ \E parameters \in TimeRanges, writes \in BOOLEAN :
          SetGlobalParameters(parameters, writes)
    \/ Render
    \/ \E writes \in BOOLEAN : Subscribe(writes)

Spec == Init /\ [][Next]_vars

----------------------------------------------------------------------------
(* The View Projector's cache *)

\* C1: once the projector has run on the current snapshot, the ids that have
\* a cached component are exactly the ids of the snapshot's items.
C1_CacheHoldsExactlyTheSnapshotIds ==
    unrendered = 0 =>
        DOMAIN widgetComponentsById = ItemIds(investigation.items)

\* C13: a run of the projector leaves the component of every id that has
\* one as it is, the very component built when the id was first seen,
\* whatever the snapshot has become; it builds a component only for the ids
\* of the snapshot that have none, one for each, and every component it
\* builds is one that was never built before.
C13_CachedBindingIsReused ==
    /\ [][/\ \A id \in DOMAIN widgetComponentsById :
                id \in ItemIds(investigation.items) =>
                    /\ id \in DOMAIN widgetComponentsById'
                    /\ widgetComponentsById'[id] = widgetComponentsById[id]
          /\ (DOMAIN widgetComponentsById') \ (DOMAIN widgetComponentsById)
                \subseteq WithoutComponent(widgetComponentsById,
                                           investigation.items)
          /\ constructed' - constructed =
                Cardinality((DOMAIN widgetComponentsById')
                                \ (DOMAIN widgetComponentsById))
          /\ \A id \in (DOMAIN widgetComponentsById')
                            \ (DOMAIN widgetComponentsById) :
                /\ widgetComponentsById'[id].binding >= constructed
                /\ widgetComponentsById'[id].binding < constructed'
                /\ widgetComponentsById'[id].id = id]_vars
    /\ [](unrendered = 0 =>
            ItemIds(investigation.items) \subseteq DOMAIN widgetComponentsById)
    /\ [](\A a, b \in DOMAIN widgetComponentsById :
            widgetComponentsById[a].binding = widgetComponentsById[b].binding
                => a = b)

\* The projector has run on a snapshot of two items after an onWidgetAdd
\* changed an item that had a component, and after the title changed.
C13_Witness ==
    /\ unrendered = 0
    /\ last.via = "onWidgetAdd"
    /\ last.published
    /\ Len(investigation.items) = 2
    /\ investigation.title = "Renamed"
    /\ DOMAIN widgetComponentsById = ItemIds(investigation.items)

----------------------------------------------------------------------------
(* Persistence Sync *)

EntriesOf(list, id) == {i \in 1..Len(list) : list[i].id = id}

\* C2: after every sync that wrote a non-empty snapshot, the entry of the
\* current investigation is the first element of the stored list.
C2_CurrentInvestigationIsFirst ==
    last.sync = "written" => investigations[1].id = investigation.id

\* C3: the sync is an upsert by investigation id: after a written sync the
\* stored list holds exactly one entry of the current id, the serialized
\* snapshot; and a written sync leaves the length of the stored list as it was
\* when the id was stored already, and makes it one longer when it was not.
C3_SyncIsUpsertById ==
    /\ [](last.sync = "written" =>
            /\ Cardinality(EntriesOf(investigations, investigation.id)) = 1
            /\ \A i \in EntriesOf(investigations, investigation.id) :
                  investigations[i] = ToSerialize(investigation))
    /\ [][last'.sync = "written" =>
            Len(investigations') =
                Len(investigations) +
                (IF EntriesOf(investigations, investigation'.id) = {} THEN 1 ELSE 0)]_vars

\* A written sync that took the update branch: the list the callback read held
\* the current investigation, among others.
C3_Witness ==
    /\ last.sync = "written"
    /\ unrendered > 0
    /\ HasStoredCurrentInvestigation(investigationsRef, investigation)
    /\ Len(investigations) = 3

\* C4: a step that leaves the store with a snapshot without items, the
\* publication of such a snapshot and its delivery on subscription included,
\* leaves the stored list exactly as it was.
C4_EmptySnapshotWritesNothing ==
    [][Len(investigation'.items) = 0 => investigations' = investigations]_vars

\* The last item of an investigation that is stored was deleted, and the
\* sync skipped the snapshot.
C4_Witness ==
    /\ last.sync = "skipped"
    /\ last.published
    /\ HasStoredCurrentInvestigation(investigations, investigation)

\* C5: no item of a stored entry of the current investigation has a `loading`
\* field, and the entry a sync has written has the id, title, parameters and
\* notes of the snapshot and its items in their order, each with every field
\* but `loading` as it is in memory.
C5_StoredEntryHasNoLoading ==
    \A i \in EntriesOf(investigations, investigation.id) :
        LET entry == investigations[i]
        IN  /\ \A j \in 1..Len(entry.items) : "loading" \notin DOMAIN entry.items[j]
            /\ last.sync = "written" =>
                /\ entry.id = investigation.id
                /\ entry.title = investigation.title
                /\ entry.globalParameters = investigation.globalParameters
                /\ entry.notes = investigation.notes
                /\ Len(entry.items) = Len(investigation.items)
                /\ \A j \in 1..Len(entry.items) :
                      /\ DOMAIN entry.items[j] =
                            (DOMAIN investigation.items[j]) \ {"loading"}
                      /\ \A f \in DOMAIN entry.items[j] :
                            entry.items[j][f] = investigation.items[j][f]

\* A written snapshot with an item that is loading and one that is not.
C5_Witness ==
    /\ last.sync = "written"
    /\ \E j \in 1..Len(investigation.items) : investigation.items[j].loading
    /\ \E j \in 1..Len(investigation.items) : ~investigation.items[j].loading

\* C6: a write local storage refuses is caught in the sync: one error dialog,
\* the handler that published does not reject, the stored list is as before,
\* the subscription stays, and the next non-empty snapshot is written again.
C6_WriteFailureIsContained ==
    /\ [](last.sync = "failed" =>
            /\ last.dialogs = <<SaveErrorTitle>>
            /\ last.outcome = "resolved"
            /\ subscribed)
    /\ [][last'.sync = "failed" =>
            /\ investigations' = investigations
            /\ Len(investigation'.items) > 0]_vars
    /\ [][(last.sync = "failed" /\ unrendered' = unrendered + 1
            /\ Len(investigation'.items) > 0) =>
            last'.sync \in {"written", "failed"}]_vars

\* A command published a snapshot and the write of it was refused.
C6_Witness ==
    /\ last.sync = "failed"
    /\ last.published

\* C16: a sync leaves every other investigation of the stored list in the
\* list, once, with the content it had: only the entry of the current
\* investigation is written (the order of the others may change).
C16_OtherEntriesAreKept ==
    [][\A id \in ItemIds(investigations) \ {investigation'.id} :
          /\ Cardinality(EntriesOf(investigations', id)) = 1
          /\ \A i \in EntriesOf(investigations, id),
                j \in EntriesOf(investigations', id) :
                investigations'[j] = investigations[i]
       /\ ItemIds(investigations') \subseteq
             ItemIds(investigations) \cup {investigation'.id}]_vars

\* A sync has written, from a list read before the last write, to a stored
\* list that holds other investigations.
C16_Witness ==
    /\ last.sync = "written"
    /\ unrendered = MaxUnrendered
    /\ investigationsRef # investigations
    /\ {"invA", "invB"} \subseteq ItemIds(investigations)

----------------------------------------------------------------------------
(* addItem *)

\* C7: when the store's addItem fails the snapshot and the stored list stay
\* as they were and nothing is published; the hook's addItem shows one error
\* dialog and resolves; onWidgetAdd rejects and shows none.
C7_FailedAddItem ==
    /\ []((last.storeFailed /\ last.via = "addItem") =>
            /\ ~last.published
            /\ last.outcome = "resolved"
            /\ last.dialogs = <<AddErrorTitle>>)
    /\ []((last.storeFailed /\ last.via = "onWidgetAdd") =>
            /\ ~last.published
            /\ last.outcome = "rejected"
            /\ last.dialogs = <<>>)
    /\ [][(last'.storeFailed /\ pending' # pending) =>
            /\ investigation' = investigation
            /\ investigations' = investigations
            /\ unrendered' = unrendered]_vars

\* The hook's addItem failed on an investigation that has an item.
C7_Witness ==
    /\ last.storeFailed
    /\ last.via = "addItem"
    /\ Len(investigation.items) > 0

\* C8: item ids are unique in every snapshot; an addItem of the hook that the
\* store carries out appends one item, of an id no item had, at the end; an
\* onWidgetAdd on an id that is there leaves the ids of the items, and their
\* order, as they were.
C8_ItemIdsUnique ==
    /\ [](\A i, j \in 1..Len(investigation.items) :
            investigation.items[i].id = investigation.items[j].id => i = j)
    /\ [][\A call \in pending :
            (call \notin pending' /\ last'.published) =>
                IF call.via = "addItem"
                THEN /\ call.id \notin ItemIds(investigation.items)
                     /\ Len(investigation'.items) = Len(investigation.items) + 1
                     /\ SubSeq(investigation'.items, 1, Len(investigation.items))
                            = investigation.items
                     /\ investigation'.items[Len(investigation'.items)].id = call.id
                ELSE call.id \in ItemIds(investigation.items) =>
                     /\ Len(investigation'.items) = Len(investigation.items)
                     /\ \A i \in 1..Len(investigation.items) :
                            investigation'.items[i].id = investigation.items[i].id]_vars

\* An onWidgetAdd was carried out on an investigation of two items.
C8_Witness ==
    /\ last.via = "onWidgetAdd"
    /\ last.published
    /\ Len(investigation.items) = 2

----------------------------------------------------------------------------
(* deleteItem and the onWidgetAdd of a component *)

\* The widgets that had a component and were deleted: the ids of the cache
\* that are not in the snapshot (only deleteItem takes an item away).
DeletedWidgets == (DOMAIN widgetComponentsById) \ ItemIds(investigation.items)

\* C17: once a widget has been deleted no later snapshot has an item of its
\* id, whatever onWidgetAdd calls of its component settle or are made
\* afterwards.
C17_DeletedIdStaysAbsent ==
    [][\A id \in DeletedWidgets : id \notin ItemIds(investigation'.items)]_vars

\* C17, amended: the id of a deleted widget comes back into the snapshot
\* only when the store carries out an addItem for that id, which an
\* onWidgetAdd of the widget's component is, whether issued before the
\* delete and settled after it or made through the component afterwards;
\* and then it does come back, as a new item at the end; every addItem the
\* store carries out leaves an item of its id in the snapshot.
C17_DeletedIdReturnsOnlyByAddItem ==
    [][/\ \A id \in DeletedWidgets :
            id \in ItemIds(investigation'.items) =>
                /\ \E call \in pending :
                      /\ call \notin pending'
                      /\ call.id = id
                      /\ call.via = "onWidgetAdd"
                /\ last'.published
                /\ Len(investigation'.items) = Len(investigation.items) + 1
                /\ SubSeq(investigation'.items, 1, Len(investigation.items))
                        = investigation.items
                /\ investigation'.items[Len(investigation'.items)].id = id
       /\ \A call \in pending :
            (call \notin pending' /\ last'.published) =>
                call.id \in ItemIds(investigation'.items)]_vars

\* The widget w1 was deleted and an onWidgetAdd of its component has brought
\* it back, behind w2.
C17_Witness ==
    /\ last.via = "onWidgetAdd"
    /\ last.published
    /\ Len(investigation.items) = 2
    /\ investigation.items[1].id = V4(1)
    /\ investigation.items[2].id = V4(0)

----------------------------------------------------------------------------
(* parseLogsContent applied to file contents *)

Alphabet == {"[", "]", ",", "{", "}", ObjectLiteral(1), "1", " ", "\n"}

ShortTexts == UNION {[1..n -> Alphabet] : n \in 0..MaxTextLen}

\* n rows, the k-th the object {"a":k}, but the number 1 at row `bad`
Row(k, bad) == IF k = bad THEN "1" ELSE ObjectLiteral(k)

RECURSIVE RowsFrom(_, _, _, _)
RowsFrom(k, n, bad, separator) ==
    IF k > n THEN <<>>
    ELSE <<Row(k, bad)>> \o (IF k < n THEN separator ELSE <<>>)
            \o RowsFrom(k + 1, n, bad, separator)

Formats == {"ndjson", "array", "array over lines"}

LongText(n, bad, format) ==
    CASE format = "ndjson" -> RowsFrom(1, n, bad, <<"\n">>)
      [] format = "array" -> <<"[">> \o RowsFrom(1, n, bad, <<",">>) \o <<"]">>
      [] format = "array over lines" ->
            <<"[", "\n">> \o RowsFrom(1, n, bad, <<",", "\n">>) \o <<"\n", "]">>

LongTexts ==
    {LongText(n, bad, format) :
        n \in (MaxLogsSampleRows - 1)..MaxRows, bad \in 0..MaxRows, format \in Formats}

\* {"a":1}\n{"a":2}   [{"a":1},{"a":2}]   [[{"a":1}]]   [1,1,1]
ScenarioTexts ==
    {<<ObjectLiteral(1), "\n", ObjectLiteral(2)>>,
     <<"[", ObjectLiteral(1), ",", ObjectLiteral(2), "]">>,
     <<"[", "[", ObjectLiteral(1), "]", "]">>,
     <<"[", "1", ",", "1", ",", "1", "]">>}

FileContents ==
    {NoFile} \cup {[isNull |-> FALSE, text |-> text] :
                      text \in ShortTexts \cup LongTexts \cup ScenarioTexts}

InitParse ==
    /\ investigation \in {CreateNewInvestigation(CurrentId, t) : t \in TimeRanges}
    /\ nextId = 0
    /\ pending = {}
    /\ widgetComponentsById = [id \in {} |-> NewComponent([id |-> id, type |-> "chart"], 0)]
    /\ constructed = 0
    /\ unrendered = 0
    /\ writeFailures = 0
    /\ investigations = <<>>
    /\ investigationsRef = investigations
    /\ subscribed = FALSE
    /\ last = NoCall
    /\ fileContent \in FileContents
    /\ parseResult = NotParsed
    /\ selected = fileContent
    /\ reads = {[file |-> fileContent, settings |-> InitialSettings]}
    /\ isParsing = TRUE
    /\ sampleFileError = Undefined
    /\ integrationSettings = InitialSettings
    /\ toasts = <<>>

\* reader.onload on the content of the file: parseLogsContent(fileContent)
\* and what the handler does with its result.
ParseFile ==
    /\ parseResult = NotParsed
    /\ parseResult' = ParseLogsContent(fileContent)
    /\ LET done == Onload(parseResult', integrationSettings)
       IN  /\ isParsing' = done.isParsing
           /\ sampleFileError' = done.sampleFileError
           /\ integrationSettings' = done.integrationSettings
           /\ toasts' = done.toasts
    /\ reads' = {}
    /\ UNCHANGED <<fileContent, selected>>
    /\ UNCHANGED hookVars

NextParse == ParseFile

SpecParse == InitParse /\ [][NextParse]_vars

Parsed == parseResult # NotParsed

IsError(result) == "error" \in DOMAIN result

IsSample(result) == "logsSampleParsed" \in DOMAIN result

\* every non-blank line parses as JSON on its own
ParsesAsNDJSON(text) ==
    \A line \in {NonBlankLines(text)[i] : i \in 1..Len(NonBlankLines(text))} :
        JSONParse(line).ok

ParsesAsJSON(text) == JSONParse(text).ok

HasNonObject(elems) == \E i \in 1..Len(elems) : elems[i].t # "object"

FirstRows(elems) ==
    SubSeq(elems, 1, IF Len(elems) > MaxLogsSampleRows THEN MaxLogsSampleRows
                                                       ELSE Len(elems))

IsArrayContent(content) ==
    /\ ~content.isNull
    /\ ParsedContent(content.text).ok
    /\ ParsedContent(content.text).val.t = "array"

ElementsOf(content) == ParsedContent(content.text).val.elems

\* C9: every content that parses to an array with an element that is not a
\* plain object is rejected as NOT_OBJECT, wherever the element is.
C9_NonObjectAnywhereIsRejected ==
    (Parsed /\ IsArrayContent(fileContent) /\ HasNonObject(ElementsOf(fileContent)))
        => parseResult = [error |-> NOT_OBJECT]

\* C9, amended: a content that parses to an array is rejected as NOT_OBJECT
\* exactly when one of its first MaxLogsSampleRows elements is not a plain
\* object; when the only such elements come later, the content is accepted,
\* truncated to its first MaxLogsSampleRows rows.
C9_NonObjectInFirstRowsIsRejected ==
    (Parsed /\ IsArrayContent(fileContent)) =>
        /\ HasNonObject(FirstRows(ElementsOf(fileContent)))
                => parseResult = [error |-> NOT_OBJECT]
        /\ (HasNonObject(ElementsOf(fileContent))
                /\ ~HasNonObject(FirstRows(ElementsOf(fileContent))))
                => /\ IsSample(parseResult)
                   /\ parseResult.isTruncated
                   /\ Len(parseResult.logsSampleParsed) = MaxLogsSampleRows

\* A content of more than MaxLogsSampleRows rows, the only row that is not an
\* object after the first MaxLogsSampleRows, was parsed.
C9_Witness ==
    /\ Parsed
    /\ IsArrayContent(fileContent)
    /\ Len(ElementsOf(fileContent)) > MaxLogsSampleRows
    /\ HasNonObject(ElementsOf(fileContent))
    /\ ~HasNonObject(FirstRows(ElementsOf(fileContent)))

\* C10: the result is an error or a sample and never both; no content gives
\* CAN_NOT_READ; a content that parses neither line by line nor as a whole
\* gives CAN_NOT_PARSE; one that parses to something that is no array gives
\* NOT_ARRAY; one that parses to an array without elements gives EMPTY; and a
\* content rejected after that is rejected as NOT_OBJECT and has an element
\* that is not a plain object.
C10_ErrorCategoryOrder ==
    Parsed =>
        /\ IsError(parseResult) # IsSample(parseResult)
        /\ IsError(parseResult) =>
              parseResult.error \in
                  {CAN_NOT_READ, CAN_NOT_PARSE, NOT_ARRAY, EMPTY, NOT_OBJECT}
        /\ fileContent.isNull => parseResult = [error |-> CAN_NOT_READ]
        /\ ~fileContent.isNull =>
              IF ~ParsesAsNDJSON(fileContent.text) /\ ~ParsesAsJSON(fileContent.text)
              THEN parseResult = [error |-> CAN_NOT_PARSE]
              ELSE LET value == IF ParsesAsNDJSON(fileContent.text)
                                THEN ParsedContent(fileContent.text).val
                                ELSE JSONParse(fileContent.text).val
                   IN  IF value.t # "array"
                       THEN parseResult = [error |-> NOT_ARRAY]
                       ELSE IF Len(value.elems) = 0
                       THEN parseResult = [error |-> EMPTY]
                       ELSE IsError(parseResult) =>
                               /\ parseResult = [error |-> NOT_OBJECT]
                               /\ HasNonObject(value.elems)

\* A content of blank lines only was rejected as EMPTY.
C10_Witness ==
    /\ Parsed
    /\ ~fileContent.isNull
    /\ Len(fileContent.text) > 0
    /\ \A i \in 1..Len(fileContent.text) : fileContent.text[i] \in Whitespace
    /\ parseResult = [error |-> EMPTY]

----------------------------------------------------------------------------
(* The sample-logs form: selections, clears, and reads that end later *)

\* The files the user picks from: two rows of NDJSON, one row more than
\* MaxLogsSampleRows, and an array of numbers.
Files ==
    {[isNull |-> FALSE, text |-> <<ObjectLiteral(1), "\n", ObjectLiteral(2)>>],
     [isNull |-> FALSE, text |-> LongText(MaxLogsSampleRows + 1, 0, "ndjson")],
     [isNull |-> FALSE, text |-> <<"[", "1", ",", "1", ",", "1", "]">>]}

InitForm ==
    /\ investigation \in {CreateNewInvestigation(CurrentId, t) : t \in TimeRanges}
    /\ nextId = 0
    /\ pending = {}
    /\ widgetComponentsById = [id \in {} |-> NewComponent([id |-> id, type |-> "chart"], 0)]
    /\ constructed = 0
    /\ unrendered = 0
    /\ writeFailures = 0
    /\ investigations = <<>>
    /\ investigationsRef = investigations
    /\ subscribed = FALSE
    /\ last = NoCall
    /\ fileContent = NoFile
    /\ parseResult = NotParsed
    /\ InitFormState

\* onChangeLogsSample(files) with a file: a FileReader is made, its onload
\* closes over the integration settings of this render, isParsing is set and
\* the read starts.
SelectFile(file) ==
    /\ Cardinality(reads) < MaxReads
    /\ selected' = file
    /\ reads' = reads \cup {[file |-> file, settings |-> integrationSettings]}
    /\ isParsing' = TRUE
    /\ toasts' = <<>>
    /\ UNCHANGED <<fileContent, parseResult, sampleFileError, integrationSettings>>
    /\ UNCHANGED hookVars

\* onChangeLogsSample(files) without a file: the picker was cleared.  The
\* reads that were started go on.
ClearFile ==
    /\ selected' = NoFile
    /\ sampleFileError' = Undefined
    /\ integrationSettings' =
            [integrationSettings EXCEPT !.logsSampleParsed = Undefined]
    /\ toasts' = <<>>
    /\ UNCHANGED <<fileContent, parseResult, reads, isParsing>>
    /\ UNCHANGED hookVars

\* A read ends with the content of its file: reader.onload runs.
ReaderOnload(read) ==
    /\ read \in reads
    /\ reads' = reads \ {read}
    /\ fileContent' = read.file
    /\ parseResult' = ParseLogsContent(read.file)
    /\ LET done == Onload(parseResult', read.settings)
       IN  /\ isParsing' = done.isParsing
           /\ sampleFileError' = done.sampleFileError
           /\ integrationSettings' = done.integrationSettings
           /\ toasts' = done.toasts
    /\ UNCHANGED selected
    /\ UNCHANGED hookVars

\* A read ends without content (the file cannot be read, or the read is
\* aborted): the reader fires error or abort, for which the form has set no
\* handler.
ReaderFails(read) ==
    /\ read \in reads
    /\ reads' = reads \ {read}
    /\ UNCHANGED <<fileContent, parseResult, selected, isParsing,
                   sampleFileError, integrationSettings, toasts>>
    /\ UNCHANGED hookVars

\* A read that was started ends, one way or the other.
ReadEnds == \E read \in reads : ReaderFails(read) \/ ReaderOnload(read)

NextForm ==
    \/ \E file \in Files : SelectFile(file)
    \/ ClearFile
    \/ \E read \in reads : ReaderOnload(read)
    \/ \E read \in reads : ReaderFails(read)

SpecForm == InitForm /\ [][NextForm]_vars

\* The browser ends every read it has started.
SpecFormFair == SpecForm /\ WF_vars(ReadEnds)

\* C18: while no file is selected the settings hold no sample and no file
\* error is shown; and once every read has ended, a sample in the settings or
\* an error shown is that of the selected file.
C18_SettingsFollowThePicker ==
    /\ selected = NoFile =>
            /\ integrationSettings.logsSampleParsed = Undefined
            /\ sampleFileError = Undefined
    /\ (selected # NoFile /\ reads = {}) =>
            /\ integrationSettings.logsSampleParsed # Undefined =>
                  /\ IsSample(ParseLogsContent(selected))
                  /\ integrationSettings.logsSampleParsed =
                        Defined(ParseLogsContent(selected).logsSampleParsed)
            /\ sampleFileError # Undefined =>
                  /\ IsError(ParseLogsContent(selected))
                  /\ sampleFileError =
                        Defined(ParseLogsContent(selected).error)

\* C19: selecting a file sets isParsing, and isParsing, once set, is reset
\* at some time, however the read ends.
C19_IsParsingIsReset ==
    /\ [][(selected' # selected /\ selected' # NoFile) => isParsing']_vars
    /\ [](isParsing => <>(~isParsing))

\* the content is rows of objects only: it parses to an array that has
\* elements, all of them plain objects
IsObjectRows(content) ==
    /\ IsArrayContent(content)
    /\ Len(ElementsOf(content)) > 0
    /\ ~HasNonObject(ElementsOf(content))

Min(a, b) == IF a < b THEN a ELSE b

\* C11: a content of n object rows gives the first min(n, MaxLogsSampleRows)
\* rows in their order in the content, and isTruncated exactly when
\* n > MaxLogsSampleRows; the handler adds the truncation toast exactly when
\* the content was accepted with isTruncated, and none with an error.
C11_TruncationAndToast ==
    Parsed =>
        /\ IsObjectRows(fileContent) =>
              LET n == Len(ElementsOf(fileContent))
              IN  /\ IsSample(parseResult)
                  /\ Len(parseResult.logsSampleParsed) = Min(n, MaxLogsSampleRows)
                  /\ \A i \in 1..Len(parseResult.logsSampleParsed) :
                        parseResult.logsSampleParsed[i] =
                            JSONStringify(ElementsOf(fileContent)[i])
                  /\ parseResult.isTruncated <=> (n > MaxLogsSampleRows)
        /\ \A n \in 1..MaxRows, format \in Formats :
              (~fileContent.isNull /\ fileContent.text = LongText(n, 0, format)) =>
                  /\ IsSample(parseResult)
                  /\ parseResult.logsSampleParsed =
                        [i \in 1..Min(n, MaxLogsSampleRows) |-> <<ObjectLiteral(i)>>]
                  /\ parseResult.isTruncated <=> (n > MaxLogsSampleRows)
        /\ toasts \in {<<>>, <<LOGS_SAMPLE_TRUNCATED>>}
        /\ (toasts = <<LOGS_SAMPLE_TRUNCATED>>) <=>
              (IsSample(parseResult) /\ parseResult.isTruncated)
        /\ IsError(parseResult) => toasts = <<>>

\* A content of more than MaxLogsSampleRows object rows was read: the sample
\* is its first MaxLogsSampleRows rows and the toast is there.
C11_Witness ==
    /\ Parsed
    /\ IsObjectRows(fileContent)
    /\ Len(ElementsOf(fileContent)) > MaxLogsSampleRows
    /\ Len(parseResult.logsSampleParsed) = MaxLogsSampleRows
    /\ toasts = <<LOGS_SAMPLE_TRUNCATED>>

\* the content has one non-blank line and that line is a JSON array
IsOneLineArray(content) ==
    /\ ~content.isNull
    /\ Len(NonBlankLines(content.text)) = 1
    /\ JSONParse(NonBlankLines(content.text)[1]).ok
    /\ JSONParse(NonBlankLines(content.text)[1]).val.t = "array"

\* the elements of that array
OneLineElements(content) == JSONParse(NonBlankLines(content.text)[1]).val.elems

\* [[{"a":1}]]
NestedArrayText == <<"[", "[", ObjectLiteral(1), "]", "]">>

\* C12: the elements of a one-line content that is a JSON array of objects
\* are the entries of the sample; and a one-line array whose single element
\* is itself an array, such as [[{"a":1}]], is accepted and gives a sample
\* of one entry.
C12_OneLineArrayIsAccepted ==
    (Parsed /\ IsOneLineArray(fileContent)) =>
        /\ (Len(OneLineElements(fileContent)) > 0
                /\ ~HasNonObject(FirstRows(OneLineElements(fileContent)))) =>
              /\ IsSample(parseResult)
              /\ parseResult.logsSampleParsed =
                    Map(FirstRows(OneLineElements(fileContent)), JSONStringify)
        /\ (Len(OneLineElements(fileContent)) = 1
                /\ OneLineElements(fileContent)[1].t = "array") =>
              /\ IsSample(parseResult)
              /\ Len(parseResult.logsSampleParsed) = 1

\* C12, amended: a one-line content that is a JSON array is unwrapped once:
\* what is checked and returned are the elements of that array, never the
\* elements of an element.  Without elements it is rejected as EMPTY; with an
\* element among the first MaxLogsSampleRows that is not a plain object it
\* is rejected as NOT_OBJECT; otherwise those elements are the entries of
\* the sample.  [[{"a":1}]] has one element, an array, and is rejected as
\* NOT_OBJECT.
C12_OneLineArrayIsUnwrappedOnce ==
    (Parsed /\ IsOneLineArray(fileContent)) =>
        /\ IF Len(OneLineElements(fileContent)) = 0
           THEN parseResult = [error |-> EMPTY]
           ELSE IF HasNonObject(FirstRows(OneLineElements(fileContent)))
           THEN parseResult = [error |-> NOT_OBJECT]
           ELSE /\ IsSample(parseResult)
                /\ parseResult.logsSampleParsed =
                      Map(FirstRows(OneLineElements(fileContent)), JSONStringify)
        /\ fileContent.text = NestedArrayText =>
              parseResult = [error |-> NOT_OBJECT]

\* [[{"a":1}]] was read and rejected.
C12_Witness ==
    /\ Parsed
    /\ ~fileContent.isNull
    /\ fileContent.text = NestedArrayText
    /\ IsError(parseResult)

====
